---- MODULE Spec2Model ----
(***************************************************************************)
(* Model of last_purchase_report.py: the rebuild and the incremental run   *)
(* of the Alegra "last purchase per client" report over three Supabase     *)
(* tables (sales_processed, clients_last_purchase, sync_state).            *)
(*                                                                         *)
(* One run is a sequence of steps, one action per function main() calls.   *)
(* Every call to Supabase or to the Alegra API may fail; each action       *)
(* chooses the outcome and follows the handler of the source (swallow,     *)
(* re-raise).  Runs do not overlap and the remote data and the date do not *)
(* change while a run is in progress.                                      *)
(***************************************************************************)
EXTENDS Integers, Sequences, FiniteSets, TLC

\* ------------------------------------------------------------- bounds --
\* Number of sales the remote source ever publishes.
MaxSales == 2
\* Page size of paginate(): 30 in the source, scaled down so that a
\* fetch of a few items spans several page requests.
PageLimit == 1
\* Chunk size of the batched upserts: 100 in the source, scaled down so
\* that a write of a few records spans several chunks.
ChunkSize == 1
\* Number of runs of the program.
MaxRuns == 2
\* Number of calls (to Supabase, to the API) that fail, over all runs.
MaxFailures == 1
\* Largest number of items of the endpoint a followed paginate() call reads:
\* two full pages and one item more.
MaxItems == 61

\* ----------------------------------------------------------- universe --
Clients == {1, 2}
SaleDays == {1, 2}
MAX_MONTHS_WITHOUT_PURCHASE == 6
\* The dates a run can take place on: the last sale day, and the day on
\* which a sale of day 1 is 181 days old and a sale of day 2 is 180.
RunDays == {2, 2 + MAX_MONTHS_WITHOUT_PURCHASE * 30}
\* date(2020, 1, 1), the default cursor: earlier than every sale.
Epoch == 0

None == "None"
DISTRIBUTOR_SET == {"4"}
MAYORISTA_SET == {"5"}
\* Price lists a sale can carry.
SalePriceLists == {None, "4"}
Kinds == {"invoice", "remission"}

\* The contact endpoint: client 1 is a wholesaler by default, client 2 has
\* no default price list.
ContactList ==
    << [id |-> 1, name |-> "c1", priceList |-> "5"],
       [id |-> 2, name |-> "c2", priceList |-> None] >>

\* ------------------------------------------------------------ helpers --
Range(s) == {s[i] : i \in 1..Len(s)}

Min2(a, b) == IF a < b THEN a ELSE b

MaxOf(S) == CHOOSE m \in S : \A x \in S : x <= m

\* str(n) and int(s) of Python on the ids of the model.
StrOf(n) == ToString(n)
IntOf(s) == CHOOSE n \in 0..9 : ToString(n) = s

\* Python truthiness of a price list id: None and "" are falsy.
Truthy(p) == p # None /\ p # ""

\* f"{id}_{type}"
SaleKey(id, type) == ToString(id) \o "_" \o type

RECURSIVE Chunks(_, _)
\* records[i:i + batch_size] for i in range(0, len(records), batch_size)
Chunks(records, size) ==
    IF records = << >> THEN << >>
    ELSE << SubSeq(records, 1, Min2(size, Len(records))) >>
         \o Chunks(SubSeq(records, Min2(size, Len(records)) + 1, Len(records)), size)

RECURSIVE Flatten(_)
Flatten(ss) == IF ss = << >> THEN << >> ELSE Head(ss) \o Flatten(Tail(ss))

\* ----------------------------------------------------------- paginate --
\* Number of page requests paginate() makes on a list when none fails: the
\* full pages, then the short or empty page that ends the loop.
NumRequests(list) == (Len(list) \div PageLimit) + 1

RECURSIVE PaginateFrom(_, _, _, _)
\* The items yielded from offset start on; request number failAt raises
\* RequestException (0: no request fails).
PaginateFrom(list, start, reqNo, failAt) ==
    IF reqNo = failAt THEN << >>
    ELSE LET batch == SubSeq(list, start + 1, Min2(start + PageLimit, Len(list)))
         IN  IF batch = << >> THEN << >>
             ELSE IF Len(batch) < PageLimit THEN batch
             ELSE batch \o PaginateFrom(list, start + PageLimit, reqNo + 1, failAt)

paginate(list, failAt) == PaginateFrom(list, 0, 1, failAt)

\* ------------------------------------------------------- store access --
\* get_existing_sales_ids(): the keys of sales_processed.
get_existing_sales_ids(rows) ==
    {rows[i].sale_id \o "_" \o rows[i].sale_type : i \in 1..Len(rows)}

\* The row save_new_sales() builds from a sale.
SaleRecord(sale) ==
    [sale_id |-> StrOf(sale.sale_id), sale_type |-> sale.type,
     client_id |-> StrOf(sale.client_id), sale_date |-> sale.date,
     price_list_id |-> sale.price_list_id]

RECURSIVE UniqueSales(_, _)
\* unique_sales of save_new_sales(): a dict keeps the position of a key's
\* first insertion and the value of its last.
UniqueSales(sales_list, acc) ==
    IF sales_list = << >> THEN acc
    ELSE LET sale == Head(sales_list)
             rec  == SaleRecord(sale)
             hit  == {i \in 1..Len(acc) :
                        acc[i].sale_id = rec.sale_id /\ acc[i].sale_type = rec.sale_type}
         IN  UniqueSales(Tail(sales_list),
                 IF hit = {} THEN Append(acc, rec)
                 ELSE [i \in 1..Len(acc) |-> IF i \in hit THEN rec ELSE acc[i]])

\* An insert that ignores the conflict target.
UpsertSalesInsertOnly(table, batch) == table \o batch

RECURSIVE UpsertSales(_, _)
\* upsert(batch, on_conflict="sale_id,sale_type") on sales_processed.
UpsertSales(table, batch) ==
    IF batch = << >> THEN table
    ELSE LET rec == Head(batch)
             hit == {i \in 1..Len(table) :
                       table[i].sale_id = rec.sale_id /\ table[i].sale_type = rec.sale_type}
         IN  UpsertSales(
                 IF hit = {} THEN Append(table, rec)
                 ELSE [i \in 1..Len(table) |-> IF i \in hit THEN rec ELSE table[i]],
                 Tail(batch))

RECURSIVE UpsertReport(_, _)
\* upsert(batch, on_conflict="cliente_id") on clients_last_purchase.
UpsertReport(table, batch) ==
    IF batch = << >> THEN table
    ELSE LET rec == Head(batch)
             hit == {i \in 1..Len(table) : table[i].cliente_id = rec.cliente_id}
         IN  UpsertReport(
                 IF hit = {} THEN Append(table, rec)
                 ELSE [i \in 1..Len(table) |-> IF i \in hit THEN rec ELSE table[i]],
                 Tail(batch))

\* save_new_sales(): the chunks applied before the call that raises
\* (failAt = 0: none raises).  The exception is caught and printed, so the
\* caller sees a normal return either way.
save_new_sales(table, sales_list, failAt) ==
    LET chunks  == Chunks(UniqueSales(sales_list, << >>), ChunkSize)
        applied == IF failAt = 0 THEN chunks ELSE SubSeq(chunks, 1, failAt - 1)
    IN  [table |-> UpsertSales(table, Flatten(applied)), raised |-> FALSE]

save_to_supabase_swallow(table, rows, failAt) ==
    LET chunks  == Chunks(rows, ChunkSize)
        applied == IF failAt = 0 THEN chunks ELSE SubSeq(chunks, 1, failAt - 1)
    IN  [table |-> UpsertReport(table, Flatten(applied)), raised |-> FALSE]

\* save_to_supabase(): as above on clients_last_purchase, but the exception
\* is raised again.
save_to_supabase(table, rows, failAt) ==
    LET chunks  == Chunks(rows, ChunkSize)
        applied == IF failAt = 0 THEN chunks ELSE SubSeq(chunks, 1, failAt - 1)
    IN  [table |-> UpsertReport(table, Flatten(applied)), raised |-> failAt # 0]

\* ------------------------------------------------------------ fetching --
\* fetch_contacts(): the dict built from the contacts yielded.
fetch_contacts(items) ==
    [cid \in {items[i].id : i \in 1..Len(items)} |->
        LET c == CHOOSE x \in Range(items) :
                   /\ x.id = cid
                   /\ \E i \in 1..Len(items) :
                        items[i] = x /\ \A j \in i + 1..Len(items) : items[j].id # cid
        IN  [price_id |-> IF c.priceList # None THEN c.priceList ELSE None,
             name |-> c.name]]

\* The canonical sale built from a raw invoice or remission.
NormalizeSale(item, type) ==
    [sale_id |-> item.id, client_id |-> item.client, date |-> item.date,
     price_list_id |-> IF Truthy(item.priceList) THEN item.priceList ELSE None,
     type |-> type]

HasKey(sales_dict, key) ==
    \E i \in 1..Len(sales_dict) :
        SaleKey(sales_dict[i].sale_id, sales_dict[i].type) = key

\* Whether fetch_new_sales() accepts a key.
IsNewKeyNoExisting(key, existing_ids, sales_dict) == ~HasKey(sales_dict, key)

IsNewKey(key, existing_ids, sales_dict) ==
    key \notin existing_ids /\ ~HasKey(sales_dict, key)

RECURSIVE AddNewSales(_, _, _, _)
\* One "for ... in paginate(...)" loop of fetch_new_sales().
AddNewSales(sales_dict, existing_ids, items, type) ==
    IF items = << >> THEN sales_dict
    ELSE AddNewSales(
             IF IsNewKey(SaleKey(Head(items).id, type), existing_ids, sales_dict)
             THEN Append(sales_dict, NormalizeSale(Head(items), type))
             ELSE sales_dict,
             existing_ids, Tail(items), type)

fetch_new_sales(existing_ids, invoices, remissions) ==
    AddNewSales(AddNewSales(<< >>, existing_ids, invoices, "invoice"),
                existing_ids, remissions, "remission")

RECURSIVE AddAllSales(_, _, _)
\* One "for ... in paginate(...)" loop of fetch_all_sales().
AddAllSales(sales_dict, items, type) ==
    IF items = << >> THEN sales_dict
    ELSE AddAllSales(
             IF ~HasKey(sales_dict, SaleKey(Head(items).id, type))
             THEN Append(sales_dict, NormalizeSale(Head(items), type))
             ELSE sales_dict,
             Tail(items), type)

fetch_all_sales(invoices, remissions) ==
    AddAllSales(AddAllSales(<< >>, invoices, "invoice"), remissions, "remission")

\* --------------------------------------------------------- aggregation --
\* A dict client_id -> {date, price_list_id} is a sequence of entries in
\* insertion order, one per key.
DictKeys(d) == {d[i].client_id : i \in 1..Len(d)}
DictGet(d, c) == CHOOSE e \in Range(d) : e.client_id = c

ReplacesOnTie(sale_date, kept_date) == sale_date >= kept_date

ReplacesEarlier(sale_date, kept_date) == sale_date < kept_date

\* The test of get_last_purchases_from_sales() on a client already seen.
Replaces(sale_date, kept_date) == sale_date > kept_date

RECURSIVE LastPurchasesFrom(_, _)
LastPurchasesFrom(sales, last_purchases) ==
    IF sales = << >> THEN last_purchases
    ELSE LET sale  == Head(sales)
             entry == [client_id |-> sale.client_id, date |-> sale.date,
                       price_list_id |-> sale.price_list_id]
         IN  LastPurchasesFrom(Tail(sales),
                 IF sale.client_id \notin DictKeys(last_purchases)
                 THEN Append(last_purchases, entry)
                 ELSE IF Replaces(sale.date, DictGet(last_purchases, sale.client_id).date)
                 THEN [i \in 1..Len(last_purchases) |->
                          IF last_purchases[i].client_id = sale.client_id
                          THEN entry ELSE last_purchases[i]]
                 ELSE last_purchases)

get_last_purchases_from_sales(sales) == LastPurchasesFrom(sales, << >>)

FirstRowsAscending(rows, cid) ==
    {i \in 1..Len(rows) :
        /\ rows[i].client_id = cid
        /\ \A j \in 1..Len(rows) :
             rows[j].client_id = cid => rows[j].sale_date >= rows[i].sale_date}

\* The rows of a client that ORDER BY client_id ASC, sale_date DESC can
\* return first: the order among rows of one client and one date is the
\* database's choice.
FirstRows(rows, cid) ==
    {i \in 1..Len(rows) :
        /\ rows[i].client_id = cid
        /\ \A j \in 1..Len(rows) :
             rows[j].client_id = cid => rows[j].sale_date <= rows[i].sale_date}

\* The client_id values of sales_processed, as int().
StoredClients(rows) == {IntOf(rows[i].client_id) : i \in 1..Len(rows)}

\* The choices the database has: for each stored client one first row.
DbPicks(rows) ==
    {pick \in [StoredClients(rows) -> 1..Len(rows)] :
        \A c \in StoredClients(rows) : pick[c] \in FirstRows(rows, StrOf(c))}

RECURSIVE SortedSeq(_)
\* The ids of a set in ascending order.
SortedSeq(S) ==
    IF S = {} THEN << >>
    ELSE LET m == CHOOSE x \in S : \A y \in S : x <= y
         IN  << m >> \o SortedSeq(S \ {m})

\* get_last_purchases_from_db() on the rows the query returned under the
\* database's choice pick.
get_last_purchases_from_db(rows, pick) ==
    LET order == SortedSeq(StoredClients(rows))
    IN  [k \in 1..Len(order) |->
            [client_id |-> order[k], date |-> rows[pick[order[k]]].sale_date,
             price_list_id |-> rows[pick[order[k]]].price_list_id]]

\* ------------------------------------------------------ classification --
category_from_price(price_id) ==
    IF price_id \in DISTRIBUTOR_SET THEN "Distribuidores"
    ELSE IF price_id \in MAYORISTA_SET THEN "Mayoristas"
    ELSE None

is_within_timeframe_strict(last_purchase_date, now) ==
    last_purchase_date > now - MAX_MONTHS_WITHOUT_PURCHASE * 30

\* cutoff_date = today - timedelta(days=max_months * 30)
is_within_timeframe(last_purchase_date, now) ==
    last_purchase_date >= now - MAX_MONTHS_WITHOUT_PURCHASE * 30

PriceIdOfContactFirst(purchase_info, contact_info) ==
    IF Truthy(contact_info.price_id) THEN contact_info.price_id
    ELSE purchase_info.price_list_id

\* price_id = purchase_info["price_list_id"] or contact_info.get("price_id")
PriceIdOf(purchase_info, contact_info) ==
    IF Truthy(purchase_info.price_list_id) THEN purchase_info.price_list_id
    ELSE contact_info.price_id

Eligible_NoRecency(client_id, purchase_info, contacts, now) ==
    /\ client_id \in DOMAIN contacts
    /\ category_from_price(PriceIdOf(purchase_info, contacts[client_id])) # None

\* Whether the loop body reaches rows.append() for a client.
Eligible(client_id, purchase_info, contacts, now) ==
    /\ client_id \in DOMAIN contacts
    /\ category_from_price(PriceIdOf(purchase_info, contacts[client_id])) # None
    /\ is_within_timeframe(purchase_info.date, now)

\* The dict appended to rows.
ReportRow(client_id, purchase_info, contacts, now) ==
    [cliente_id |-> StrOf(client_id),
     cliente_nombre |-> contacts[client_id].name,
     categoria |-> category_from_price(PriceIdOf(purchase_info, contacts[client_id])),
     lista_precio_id |-> PriceIdOf(purchase_info, contacts[client_id]),
     fecha_ultima_compra |-> purchase_info.date,
     dias_sin_compra |-> now - purchase_info.date]

RECURSIVE FullRows(_, _, _)
\* rows of build_full_report(): one pass over last_purchases.items().
FullRows(last_purchases, contacts, now) ==
    IF last_purchases = << >> THEN << >>
    ELSE LET e == Head(last_purchases)
         IN  (IF Eligible(e.client_id, e, contacts, now)
              THEN << ReportRow(e.client_id, e, contacts, now) >> ELSE << >>)
             \o FullRows(Tail(last_purchases), contacts, now)

RECURSIVE UpdatedRows(_, _, _, _)
\* rows of update_client_reports(): one pass over updated_clients.
UpdatedRows(updated_clients, all_last_purchases, contacts, now) ==
    IF updated_clients = << >> THEN << >>
    ELSE LET c == Head(updated_clients)
         IN  (IF /\ c \in DictKeys(all_last_purchases)
                 /\ Eligible(c, DictGet(all_last_purchases, c), contacts, now)
              THEN << ReportRow(c, DictGet(all_last_purchases, c), contacts, now) >>
              ELSE << >>)
             \o UpdatedRows(Tail(updated_clients), all_last_purchases, contacts, now)

\* Every client, whether or not the batch has a sale of theirs.
UpdatedClients_All(new_sales) == SortedSeq(Clients)

\* updated_clients: a set of small ints, iterated in ascending order.
UpdatedClients(new_sales) ==
    SortedSeq({new_sales[i].client_id : i \in 1..Len(new_sales)})

\* --------------------------------------------------------------- state --
VARIABLES
    remote,          \* the invoices and remissions of the Alegra account
    today,           \* datetime.now(LOCAL_TZ).date()
    store,           \* table sales_processed
    report,          \* table clients_last_purchase
    sync,            \* table sync_state: no row, or the row id = 1 (its last_sync)
    pc,              \* where main() is
    mode,            \* "rebuild" (args.rebuild) or "incremental"
    since,           \* main(): since
    contacts,        \* main(): contacts
    sales,           \* main(): all_sales or new_sales
    existing_ids,    \* fetch_new_sales(): existing_ids
    fetched,         \* the items the two paginate() loops of the fetch yielded
    last_purchases,  \* last_purchases or all_last_purchases of the report step
    rows,            \* rows of the report step
    faults,          \* the calls of this run that failed
    upserted,        \* an upsert of this run went through on clients_last_purchase
    syncWritten,     \* this run wrote sync_state
    store0,          \* sales_processed when the run started
    report0,         \* clients_last_purchase when the run started
    sync0,           \* sync_state when the run started
    prev,            \* how the previous run ended
    pendingRows,     \* rows of an incremental run that stopped in its upsert
    pureInc,         \* so far only complete incremental runs, in date order
    runs,            \* runs started so far
    failures,        \* failed calls so far
    confirm,         \* main(), rebuild: the answer typed at the prompt
    gen              \* the frame of one paginate() call followed request by request

tables == << store, report, sync >>
locals == << since, contacts, sales, existing_ids, fetched, last_purchases, rows >>
events == << faults, upserted, syncWritten >>
starts == << store0, report0, sync0 >>
ghosts == << prev, pendingRows, pureInc >>
counts == << runs, failures >>
runvars == << remote, today, tables, pc, mode, locals, events, starts, ghosts, counts,
              confirm >>
vars == << runvars, gen >>

\* No paginate() call is followed.
NoCall == [pc |-> "none"]

\* The state of the tables and of main() before the first run.
InitRun ==
    /\ remote = << >>
    /\ today = 2
    /\ store = << >> /\ report = << >> /\ sync = << >>
    /\ pc = "idle" /\ mode = "incremental"
    /\ since = Epoch /\ contacts = << >> /\ sales = << >>
    /\ existing_ids = {} /\ fetched = << >>
    /\ last_purchases = << >> /\ rows = << >>
    /\ faults = {} /\ upserted = FALSE /\ syncWritten = FALSE
    /\ store0 = << >> /\ report0 = << >> /\ sync0 = << >>
    /\ prev = "none" /\ pendingRows = << >> /\ pureInc = TRUE
    /\ runs = 0 /\ failures = 0
    /\ confirm = None

Init == InitRun /\ gen = NoCall

\* --------------------------------------------------------- environment --
RemoteDates == {remote[i].date : i \in 1..Len(remote)}

\* A new invoice or remission appears in the account; ids count up per
\* endpoint.
PublishSale ==
    /\ pc = "idle" /\ runs < MaxRuns
    /\ Len(remote) < MaxSales
    /\ \E k \in Kinds, c \in Clients, d \in SaleDays, p \in SalePriceLists :
         /\ remote' = Append(remote,
                [id |-> Cardinality({i \in 1..Len(remote) : remote[i].kind = k}) + 1,
                 kind |-> k, client |-> c, date |-> d, priceList |-> p])
         /\ pureInc' = (pureInc /\ \A x \in RemoteDates : x <= d)
    /\ pendingRows' = << >>
    /\ UNCHANGED << today, tables, pc, mode, locals, events, starts, prev, counts >>
    /\ UNCHANGED << gen, confirm >>

\* Time passes between two runs.
AdvanceDay ==
    /\ pc = "idle" /\ runs < MaxRuns
    /\ \E d \in RunDays : d > today /\ today' = d
    /\ pendingRows' = << >>
    /\ pureInc' = (pureInc /\ prev = "none")
    /\ UNCHANGED << remote, tables, pc, mode, locals, events, starts, prev, counts >>
    /\ UNCHANGED << gen, confirm >>

\* ------------------------------------------------------------- fetching --
\* What an endpoint serves: its items of the kind (from the date on, when
\* given), and possibly one of them a second time at the end, as when the
\* list shifts between two page requests; the repeated item may have been
\* edited in between.
Endpoint(kind, from) ==
    SelectSeq(remote, LAMBDA x : x.kind = kind /\ x.date >= from)

Served(kind, from) ==
    {Endpoint(kind, from)} \cup
    {Append(Endpoint(kind, from), [b EXCEPT !.date = d, !.priceList = p]) :
        b \in Range(Endpoint(kind, from)), d \in SaleDays, p \in SalePriceLists}

Irregular(kind, from, list, failAt) == failAt # 0 \/ list # Endpoint(kind, from)

\* The calls that fail are counted, and their number is bounded.
Cost(failed) == IF failed THEN 1 ELSE 0
Fails(n) == failures + n <= MaxFailures /\ failures' = failures + n

\* The first steps of a run: remember the tables as they are.
BeginRun(m) ==
    /\ runs < MaxRuns /\ runs' = runs + 1
    /\ mode' = m
    /\ store0' = store /\ report0' = report /\ sync0' = sync
    /\ upserted' = FALSE /\ syncWritten' = FALSE

\* main(), incremental: load_state() and the cursor.
LoadState ==
    /\ pc = "idle"
    /\ BeginRun("incremental")
    /\ \E ok \in BOOLEAN :
         /\ since' = IF ok /\ sync # << >> THEN sync[1] ELSE Epoch
         /\ faults' = IF ok THEN {} ELSE {"load_state"}
         /\ Fails(Cost(~ok))
    /\ pc' = "contacts"
    /\ UNCHANGED << remote, today, tables, contacts, sales, existing_ids, fetched,
                    last_purchases, rows, ghosts >>
    /\ UNCHANGED << gen, confirm >>

\* main(): contacts = fetch_contacts()
FetchContacts ==
    /\ pc = "contacts"
    /\ \E failAt \in 0..NumRequests(ContactList) :
         /\ contacts' = fetch_contacts(paginate(ContactList, failAt))
         /\ faults' = IF failAt = 0 THEN faults ELSE faults \cup {"fetch"}
         /\ Fails(Cost(failAt # 0))
    /\ pc' = "fetch"
    /\ UNCHANGED << remote, today, tables, mode, since, sales, existing_ids, fetched,
                    last_purchases, rows, upserted, syncWritten, starts, ghosts, runs >>
    /\ UNCHANGED << gen, confirm >>

\* main(), incremental: new_sales = fetch_new_sales(since), and the test
\* "if new_sales".
FetchNewSales ==
    /\ pc = "fetch" /\ mode = "incremental"
    /\ \E ok \in BOOLEAN, inv \in Served("invoice", since), rem \in Served("remission", since) :
       \E fi \in 0..NumRequests(inv), fr \in 0..NumRequests(rem) :
         /\ Fails(Cost(~ok) + Cost(Irregular("invoice", since, inv, fi))
                            + Cost(Irregular("remission", since, rem, fr)))
         /\ existing_ids' = IF ok THEN get_existing_sales_ids(store) ELSE {}
         /\ fetched' = << paginate(inv, fi), paginate(rem, fr) >>
         /\ sales' = fetch_new_sales(existing_ids', fetched'[1], fetched'[2])
         /\ faults' = faults
                \cup (IF ok THEN {} ELSE {"existing"})
                \cup (IF \/ Irregular("invoice", since, inv, fi)
                         \/ Irregular("remission", since, rem, fr)
                      THEN {"fetch"} ELSE {})
         /\ pc' = IF sales' # << >> THEN "save" ELSE "state"
    /\ UNCHANGED << remote, today, tables, mode, since, contacts,
                    last_purchases, rows, upserted, syncWritten, starts, ghosts, runs >>
    /\ UNCHANGED << gen, confirm >>

\* main(), rebuild: all_sales = fetch_all_sales()
FetchAllSales ==
    /\ pc = "fetch" /\ mode = "rebuild"
    /\ \E inv \in Served("invoice", Epoch), rem \in Served("remission", Epoch) :
       \E fi \in 0..NumRequests(inv), fr \in 0..NumRequests(rem) :
         /\ Fails(Cost(Irregular("invoice", Epoch, inv, fi))
                  + Cost(Irregular("remission", Epoch, rem, fr)))
         /\ fetched' = << paginate(inv, fi), paginate(rem, fr) >>
         /\ sales' = fetch_all_sales(fetched'[1], fetched'[2])
         /\ faults' = faults
                \cup (IF \/ Irregular("invoice", Epoch, inv, fi)
                         \/ Irregular("remission", Epoch, rem, fr)
                      THEN {"fetch"} ELSE {})
    /\ pc' = "save"
    /\ UNCHANGED << remote, today, tables, mode, since, contacts, existing_ids,
                    last_purchases, rows, upserted, syncWritten, starts, ghosts, runs >>
    /\ UNCHANGED << gen, confirm >>

\* ------------------------------------------------------------- writing --
\* main(): save_new_sales(...)
SaveNewSales ==
    /\ pc = "save"
    /\ \E failAt \in 0..Len(Chunks(UniqueSales(sales, << >>), ChunkSize)) :
         LET r == save_new_sales(store, sales, failAt)
         IN  /\ store' = r.table
             /\ faults' = IF failAt = 0 THEN faults ELSE faults \cup {"save"}
             /\ Fails(Cost(failAt # 0))
             /\ pc' = IF r.raised THEN "aborted" ELSE "report"
    /\ existing_ids' = {} /\ fetched' = << >>
    /\ UNCHANGED << remote, today, report, sync, mode, since, contacts, sales,
                    last_purchases, rows, upserted, syncWritten, starts, ghosts, runs >>
    /\ UNCHANGED << gen, confirm >>

\* The end of both report functions: "if rows: save_to_supabase(df)".
SaveRows(new_rows) ==
    IF new_rows = << >>
    THEN /\ report' = report /\ upserted' = upserted /\ faults' = faults
         /\ pc' = "state" /\ Fails(0)
    ELSE \E failAt \in 0..Len(Chunks(new_rows, ChunkSize)) :
           LET r == save_to_supabase(report, new_rows, failAt)
           IN  /\ report' = r.table
               /\ upserted' = (failAt # 1)
               /\ faults' = IF failAt = 0 THEN faults ELSE faults \cup {"upsert"}
               /\ Fails(Cost(failAt # 0))
               /\ pc' = IF r.raised THEN "aborted" ELSE "state"

\* main(), incremental: update_client_reports(contacts, new_sales)
UpdateClientReports ==
    /\ pc = "report" /\ mode = "incremental"
    /\ \E ok \in BOOLEAN, pick \in DbPicks(store) :
         /\ last_purchases' = IF ok THEN get_last_purchases_from_db(store, pick) ELSE << >>
         /\ rows' = UpdatedRows(UpdatedClients(sales), last_purchases', contacts, today)
         /\ \/ ok /\ SaveRows(rows')
            \/ ~ok /\ report' = report /\ upserted' = upserted
                   /\ faults' = faults \cup {"db"} /\ pc' = "state" /\ Fails(1)
    /\ UNCHANGED << remote, today, store, sync, mode, since, contacts, sales,
                    existing_ids, fetched, syncWritten, starts, ghosts, runs >>
    /\ UNCHANGED << gen, confirm >>

\* main(), rebuild: build_full_report(contacts, all_sales)
BuildFullReport ==
    /\ pc = "report" /\ mode = "rebuild"
    /\ last_purchases' = get_last_purchases_from_sales(sales)
    /\ rows' = FullRows(last_purchases', contacts, today)
    /\ SaveRows(rows')
    /\ UNCHANGED << remote, today, store, sync, mode, since, contacts, sales,
                    existing_ids, fetched, syncWritten, starts, ghosts, runs >>
    /\ UNCHANGED << gen, confirm >>


\* A cursor written only when the run accepted a sale.
SaveState_OnlyWithSales ==
    /\ pc = "state"
    /\ \E ok \in BOOLEAN :
         /\ sync' = IF ok /\ sales # << >> THEN << today >> ELSE sync
         /\ syncWritten' = (ok /\ sales # << >>)
         /\ faults' = IF ok THEN faults ELSE faults \cup {"save_state"}
         /\ Fails(Cost(~ok))
    /\ pc' = "done"
    /\ existing_ids' = {} /\ fetched' = << >>
    /\ UNCHANGED << remote, today, store, report, mode, since, contacts, sales,
                    last_purchases, rows, upserted, starts, ghosts, runs >>
    /\ UNCHANGED << gen, confirm >>

\* main(): save_state(today); its exception is caught and printed.
SaveState ==
    /\ pc = "state"
    /\ \E ok \in BOOLEAN :
         /\ sync' = IF ok THEN << today >> ELSE sync
         /\ syncWritten' = ok
         /\ faults' = IF ok THEN faults ELSE faults \cup {"save_state"}
         /\ Fails(Cost(~ok))
    /\ pc' = "done"
    /\ existing_ids' = {} /\ fetched' = << >>
    /\ UNCHANGED << remote, today, store, report, mode, since, contacts, sales,
                    last_purchases, rows, upserted, starts, ghosts, runs >>
    /\ UNCHANGED << gen, confirm >>

\* -------------------------------------------------------------- rebuild --
\* confirm.lower()
Lower(s) == IF s = "Y" THEN "y" ELSE s

\* What the operator may type at the prompt.
Answers == {"y", "Y", "n", "yes", ""}

\* A prompt that goes on unless the answer is "n".
Confirm_DefaultYes ==
    /\ pc = "idle"
    /\ BeginRun("rebuild")
    /\ \E answer \in Answers :
         /\ confirm' = answer
         /\ pc' = IF Lower(answer) = "n" THEN "cancelled" ELSE "truncate"
    /\ faults' = {}
    /\ UNCHANGED << remote, today, tables, locals, ghosts, failures >>
    /\ UNCHANGED gen

\* main(), rebuild: the confirmation prompt.
Confirm ==
    /\ pc = "idle"
    /\ BeginRun("rebuild")
    /\ \E answer \in Answers :
         /\ confirm' = answer
         /\ pc' = IF Lower(answer) # "y" THEN "cancelled" ELSE "truncate"
    /\ faults' = {}
    /\ UNCHANGED << remote, today, tables, locals, ghosts, failures >>
    /\ UNCHANGED gen

\* A truncate whose exception is printed and not raised again.
truncate_tables_swallow(failAt) ==
    /\ store' = IF failAt = 1 THEN store ELSE << >>
    /\ report' = IF failAt \in {1, 2} THEN report ELSE << >>
    /\ sync' = IF failAt \in {1, 2, 3} THEN sync ELSE << >>
    /\ pc' = "contacts"

\* truncate_tables(): three deletes in order; the first that fails (failAt)
\* ends the function and the exception is raised again.
truncate_tables(failAt) ==
    /\ store' = IF failAt = 1 THEN store ELSE << >>
    /\ report' = IF failAt \in {1, 2} THEN report ELSE << >>
    /\ sync' = IF failAt \in {1, 2, 3} THEN sync ELSE << >>
    /\ pc' = IF failAt # 0 THEN "aborted" ELSE "contacts"

Truncate ==
    /\ pc = "truncate"
    /\ \E failAt \in 0..3 :
         /\ truncate_tables(failAt)
         /\ faults' = IF failAt = 0 THEN faults ELSE faults \cup {"truncate"}
         /\ Fails(Cost(failAt # 0))
    /\ UNCHANGED << remote, today, mode, locals, upserted, syncWritten, starts, ghosts, runs >>
    /\ UNCHANGED << gen, confirm >>

\* --------------------------------------------------------- end of a run --
\* main() returns or dies with the exception; its locals are gone.
Finish ==
    /\ pc \in {"done", "aborted", "cancelled"}
    /\ pc' = "idle"
    /\ since' = Epoch /\ contacts' = << >> /\ sales' = << >>
    /\ existing_ids' = {} /\ fetched' = << >>
    /\ last_purchases' = << >> /\ rows' = << >>
    /\ faults' = {} /\ upserted' = FALSE /\ syncWritten' = FALSE
    /\ confirm' = None
    /\ store0' = << >> /\ report0' = << >> /\ sync0' = << >>
    /\ prev' = IF pc = "done" /\ mode = "incremental" THEN "incremental" ELSE "other"
    /\ pendingRows' = IF pc = "aborted" /\ mode = "incremental" /\ faults = {"upsert"}
                      THEN rows ELSE << >>
    /\ pureInc' = (pureInc /\ pc = "done" /\ mode = "incremental" /\ faults = {})
    /\ UNCHANGED << remote, today, tables, mode, counts >>
    /\ UNCHANGED gen

Next ==
    \/ PublishSale \/ AdvanceDay
    \/ LoadState \/ FetchContacts \/ FetchNewSales \/ SaveNewSales
    \/ UpdateClientReports \/ SaveState
    \/ Confirm \/ Truncate \/ FetchAllSales \/ BuildFullReport
    \/ Finish

Spec == Init /\ [][Next]_vars

\* ------------------------------------------- one paginate() call, stepwise --
\* params["limit"], and the step of params["start"].
limit == 30
\* max_items = float('inf') outside test mode: above every count.
Infinity == 1000000
\* Values of TEST_MAX_ITEMS / TEST_MAX_CONTACTS in test mode.
TestCaps == {1, 45, 100}

\* The endpoint of the followed call: n items, which do not change during
\* the call; the page at offset start is items start+1 .. start+limit.
ItemsOf(n) == [i \in 1..n |-> i]
Page(items, start) == SubSeq(items, start + 1, Min2(start + limit, Len(items)))

\* The frame of paginate() before its first request.
GenStart(n, test, cap) ==
    [pc |-> "request", source |-> ItemsOf(n),
     TEST_MODE |-> test, max_items |-> IF test THEN cap ELSE Infinity,
     start |-> 0, count |-> 0, batch |-> << >>, k |-> 0,
     requests |-> << >>, yielded |-> << >>, failed |-> FALSE, capped |-> FALSE]

PgInit ==
    /\ InitRun
    /\ gen \in {GenStart(n, FALSE, 0) : n \in 0..MaxItems}
               \cup {GenStart(n, TRUE, cap) : n \in 0..MaxItems, cap \in TestCaps}

\* A failed request after which the loop goes on with the next page.
PgRequest_SkipsFailedPage ==
    /\ gen.pc = "request"
    /\ \E ok \in BOOLEAN :
         LET asked == [gen EXCEPT !.requests = Append(@, gen.start)]
             batch == Page(gen.source, gen.start)
         IN  gen' = IF ~ok /\ batch # << >>
                        THEN [asked EXCEPT !.failed = TRUE, !.start = @ + limit]
                    ELSE IF batch = << >> THEN [asked EXCEPT !.pc = "end", !.batch = << >>]
                    ELSE [asked EXCEPT !.pc = "yield", !.batch = batch, !.k = 1]
    /\ UNCHANGED runvars

\* requests.get(...); r.raise_for_status(); batch = r.json(); the request
\* raises RequestException (break), or answers with the page at the offset
\* ("if not batch: break").
PgRequest ==
    /\ gen.pc = "request"
    /\ \E ok \in BOOLEAN :
         LET asked == [gen EXCEPT !.requests = Append(@, gen.start)]
             batch == Page(gen.source, gen.start)
         IN  gen' = IF ~ok THEN [asked EXCEPT !.pc = "end", !.failed = TRUE]
                    ELSE IF batch = << >> THEN [asked EXCEPT !.pc = "end", !.batch = << >>]
                    ELSE [asked EXCEPT !.pc = "yield", !.batch = batch, !.k = 1]
    /\ UNCHANGED runvars

\* One turn of "for item in batch": yield, count, and the test-mode return.
PgYield ==
    /\ gen.pc = "yield"
    /\ LET out == [gen EXCEPT !.yielded = Append(@, gen.batch[gen.k]),
                              !.count = @ + 1]
       IN  gen' = IF out.TEST_MODE /\ out.count >= out.max_items
                      THEN [out EXCEPT !.pc = "end", !.capped = TRUE]
                  ELSE IF gen.k < Len(gen.batch) THEN [out EXCEPT !.k = @ + 1]
                  ELSE [out EXCEPT !.pc = "paged"]
    /\ UNCHANGED runvars

\* A loop that ends on a full page as well.
PgPaged_StopsOnFullPage ==
    /\ gen.pc = "paged"
    /\ gen' = IF Len(gen.batch) <= limit THEN [gen EXCEPT !.pc = "end"]
              ELSE [gen EXCEPT !.pc = "request", !.start = @ + limit]
    /\ UNCHANGED runvars

\* After the page: "if len(batch) < 30: break", else params["start"] += 30.
PgPaged ==
    /\ gen.pc = "paged"
    /\ gen' = IF Len(gen.batch) < limit THEN [gen EXCEPT !.pc = "end"]
              ELSE [gen EXCEPT !.pc = "request", !.start = @ + limit]
    /\ UNCHANGED runvars

\* The generator is exhausted: the caller's "for c in paginate(...)" ends
\* and the caller goes on with the statements after its loop.
PgLoopEnds ==
    /\ gen.pc = "end"
    /\ gen' = [gen EXCEPT !.pc = "after_loop"]
    /\ UNCHANGED runvars

PgNext == PgRequest \/ PgYield \/ PgPaged \/ PgLoopEnds

\* The caller's for loop drives the generator until it is exhausted.
PaginateSpec == PgInit /\ [][PgNext]_vars /\ WF_vars(PgNext)

\* ============================================================== claims ==
\* The sequences with the elements of s in another order.
Perms(s) ==
    {[i \in 1..Len(s) |-> s[f[i]]] :
        f \in {g \in [1..Len(s) -> 1..Len(s)] :
                 \A a, b \in 1..Len(s) : g[a] = g[b] => a = b}}

\* The sale dates sales_processed holds for a client (client_id as stored).
StoredDates(cid) == {store[j].sale_date : j \in {k \in 1..Len(store) : store[k].client_id = cid}}

\* The report step of the run has been taken.
Reported == pc \in {"state", "done"} \/ (pc = "aborted" /\ "upsert" \in faults)

\* Every sale of the remote source has a record in the table.
AllIngested(table) ==
    \A i \in 1..Len(remote) : \E j \in 1..Len(table) :
        table[j].sale_id = StrOf(remote[i].id) /\ table[j].sale_type = remote[i].kind

\* C1: an incremental run that appended its sales and then stopped in the
\* report upsert is completed by the next incremental run over the same
\* remote data: when that run is done, clients_last_purchase holds the rows
\* the stopped run was writing.
C1_RetryCompletesReport ==
    (pc = "done" /\ mode = "incremental" /\ faults = {} /\ pendingRows # << >>)
        => \A i \in 1..Len(pendingRows) : pendingRows[i] \in Range(report)

\* The rows a rebuild writes into an empty clients_last_purchase from the
\* remote data and the contact list as they are.
RebuildRows ==
    Range(FullRows(
        get_last_purchases_from_sales(
            fetch_all_sales(Endpoint("invoice", Epoch), Endpoint("remission", Epoch))),
        fetch_contacts(ContactList), today))

\* No client has two sales of one date: the order the database returns
\* equal dates in plays no part.
NoTies ==
    \A i, j \in 1..Len(remote) :
        (remote[i].client = remote[j].client /\ remote[i].date = remote[j].date) => i = j

\* C2: after incremental runs from empty tables that ingested the whole
\* remote history in batches in date order, on one day and with one contact
\* list, clients_last_purchase holds the rows one rebuild would write.
\* Stated for the histories without two sales of one client on one date,
\* where the result of neither mode depends on an order among equal dates.
C2_RebuildEquivalence ==
    (pc = "idle" /\ pureInc /\ prev = "incremental" /\ AllIngested(store) /\ NoTies)
        => Range(report) = RebuildRows

\* C3: sales_processed never holds two rows with the same sale_id and
\* sale_type.
C3_OneRecordPerKey ==
    \A i, j \in 1..Len(store) :
        (store[i].sale_id = store[j].sale_id /\ store[i].sale_type = store[j].sale_type)
            => i = j

\* A run saved again a sale that was stored already, after the read of the
\* stored keys failed.
C3_Witness ==
    /\ pc = "report" /\ "existing" \in faults /\ "save" \notin faults
    /\ \E i \in 1..Len(sales) : \E j \in 1..Len(store0) :
         store0[j].sale_id = StrOf(sales[i].sale_id) /\ store0[j].sale_type = sales[i].type

\* C4: when the append to sales_processed fails, the run performs no upsert
\* on clients_last_purchase and does not write sync_state.
C4_AppendFailureAborts ==
    "save" \in faults => (~upserted /\ ~syncWritten)

\* C5 as stated: a run whose report upsert raises ends with sync_state as
\* it was when the run started, and sync_state is written only after the
\* report step.
C5_SyncUnchangedOnUpsertError ==
    /\ syncWritten => (pc = "done" /\ "upsert" \notin faults)
    /\ "upsert" \in faults => (pc = "aborted" /\ ~syncWritten /\ sync = sync0)

\* C5 amended: sync_state is written only after the report step of the run
\* ended without error; a run whose report upsert raises stops without
\* writing sync_state, which an incremental run leaves as it was at its
\* start and a rebuild leaves empty, as its truncate made it.
C5_NoSyncWriteOnUpsertError ==
    /\ syncWritten => (pc = "done" /\ "upsert" \notin faults)
    /\ "upsert" \in faults =>
         /\ pc = "aborted" /\ ~syncWritten
         /\ sync = IF mode = "rebuild" THEN << >> ELSE sync0

\* A run stopped in its report upsert and sync_state had a row at its start.
C5_Witness ==
    pc = "aborted" /\ "upsert" \in faults /\ sync0 # << >>

\* The second of two incremental runs in a row is done, and the remote
\* source held no sale that sales_processed did not hold at its start.
SecondRunNothingNew ==
    /\ pc = "done" /\ mode = "incremental" /\ prev = "incremental"
    /\ AllIngested(store0)

Touched == {sales[i].client_id : i \in 1..Len(sales)}

\* C7: in an incremental run, the last purchase date of every client of the
\* accepted batch, and of every row the run builds, is the greatest
\* sale_date sales_processed holds for that client.
C7_LastPurchaseIsStoredMax ==
    (mode = "incremental" /\ Reported) =>
        /\ \A c \in Touched \cap DictKeys(last_purchases) :
             DictGet(last_purchases, c).date = MaxOf(StoredDates(StrOf(c)))
        /\ \A i \in 1..Len(rows) :
             rows[i].fecha_ultima_compra = MaxOf(StoredDates(rows[i].cliente_id))

\* A row was built for a client whose sales in the batch are all older
\* than a sale stored for it before.
C7_Witness ==
    /\ mode = "incremental" /\ Reported
    /\ \E i \in 1..Len(rows) :
         /\ \A k \in 1..Len(sales) :
              StrOf(sales[k].client_id) = rows[i].cliente_id
                  => sales[k].date < rows[i].fecha_ultima_compra
         /\ \E j \in 1..Len(store0) :
              /\ store0[j].client_id = rows[i].cliente_id
              /\ store0[j].sale_date = rows[i].fecha_ultima_compra

\* What the incremental fetch yielded, as (id, kind, item) in order.
Yielded ==
    [i \in 1..Len(fetched[1]) |-> [id |-> fetched[1][i].id, kind |-> "invoice", item |-> fetched[1][i]]]
    \o [i \in 1..Len(fetched[2]) |-> [id |-> fetched[2][i].id, kind |-> "remission", item |-> fetched[2][i]]]

Known(id, kind) == (ToString(id) \o "_" \o kind) \in existing_ids

\* C8: the list fetch_new_sales() returns holds no sale whose key is among
\* the stored keys it read, holds every other key the fetch yielded exactly
\* once, with the fields of the first item yielded under that key; the key
\* is the id together with the kind.
C8_NewSalesDeduplicated ==
    (mode = "incremental" /\ Len(fetched) = 2) =>
        LET y == Yielded
        IN  /\ \A i \in 1..Len(sales) : ~Known(sales[i].sale_id, sales[i].type)
            /\ \A k \in 1..Len(y) :
                 ~Known(y[k].id, y[k].kind) =>
                    Cardinality({i \in 1..Len(sales) :
                        sales[i].sale_id = y[k].id /\ sales[i].type = y[k].kind}) = 1
            /\ \A i \in 1..Len(sales) :
                 \E k \in 1..Len(y) :
                    /\ y[k].id = sales[i].sale_id /\ y[k].kind = sales[i].type
                    /\ \A m \in 1..k - 1 :
                         ~(y[m].id = y[k].id /\ y[m].kind = y[k].kind)
                    /\ sales[i].client_id = y[k].item.client
                    /\ sales[i].date = y[k].item.date
                    /\ sales[i].price_list_id = y[k].item.priceList

\* The fetch yielded an invoice twice with different fields, and a
\* remission with the id of the invoice; both kinds are in the list.
C8_Witness ==
    /\ mode = "incremental" /\ Len(fetched) = 2
    /\ \E a, b \in 1..Len(fetched[1]) :
         a < b /\ fetched[1][a].id = fetched[1][b].id /\ fetched[1][a] # fetched[1][b]
    /\ \E i, j \in 1..Len(sales) :
         sales[i].sale_id = sales[j].sale_id /\ sales[i].type # sales[j].type

\* The clients and the dates of a list of sales.
ClientsOf(list) == {list[i].client_id : i \in 1..Len(list)}
DatesOf(list, c) == {list[i].date : i \in {k \in 1..Len(list) : list[k].client_id = c}}

\* C9: get_last_purchases_from_sales() has one entry for every client of
\* its input and for no other, with the greatest date of the client's
\* sales, and the dates are the same for every order of the input.
C9_FullModeMaxDate ==
    (mode = "rebuild" /\ Reported) =>
        /\ DictKeys(last_purchases) = ClientsOf(sales)
        /\ Len(last_purchases) = Cardinality(ClientsOf(sales))
        /\ \A i \in 1..Len(last_purchases) :
             last_purchases[i].date = MaxOf(DatesOf(sales, last_purchases[i].client_id))
        /\ \A p \in Perms(sales) :
             LET q == get_last_purchases_from_sales(p)
             IN  /\ DictKeys(q) = DictKeys(last_purchases)
                 /\ \A c \in DictKeys(q) :
                      DictGet(q, c).date = DictGet(last_purchases, c).date

\* A rebuild aggregated two sales of a client, the later one first.
C9_Witness ==
    /\ mode = "rebuild" /\ Reported
    /\ \E i, j \in 1..Len(sales) :
         i < j /\ sales[i].client_id = sales[j].client_id /\ sales[i].date > sales[j].date

\* C10: when several sales of a client have its greatest date, the entry of
\* get_last_purchases_from_sales() has the price list of the first of them
\* in the input.
C10_FirstSeenOnTie ==
    (mode = "rebuild" /\ Reported) =>
        \A e \in Range(last_purchases) :
            LET top   == {k \in 1..Len(sales) :
                            sales[k].client_id = e.client_id /\ sales[k].date = e.date}
                first == CHOOSE k \in top : \A m \in top : k <= m
            IN  e.price_list_id = sales[first].price_list_id

\* A rebuild aggregated two sales of a client with one date and different
\* price lists, no later sale of the client.
C10_Witness ==
    /\ mode = "rebuild" /\ Reported
    /\ \E i, j \in 1..Len(sales) :
         /\ i < j /\ sales[i].client_id = sales[j].client_id
         /\ sales[i].date = sales[j].date
         /\ sales[i].price_list_id # sales[j].price_list_id
         /\ \A k \in 1..Len(sales) :
              sales[k].client_id = sales[i].client_id => sales[k].date <= sales[i].date

\* C11: the price list of a row is the one of the client's last purchase
\* when that sale carries one, and the default of the client's contact only
\* when it carries none; the category follows from that price list, so a
\* last purchase with list "4" of a client with default "5" is written as
\* "Distribuidores".
C11_SalePriceListFirst ==
    Reported =>
        \A i \in 1..Len(rows) :
            LET c    == IntOf(rows[i].cliente_id)
                e    == DictGet(last_purchases, c)
                used == IF e.price_list_id # None THEN e.price_list_id
                        ELSE contacts[c].price_id
            IN  /\ rows[i].lista_precio_id = used
                /\ rows[i].categoria =
                     IF used \in DISTRIBUTOR_SET THEN "Distribuidores" ELSE "Mayoristas"
                /\ (e.price_list_id = "4" /\ contacts[c].price_id = "5")
                        => rows[i].categoria = "Distribuidores"

\* A row was built from a last purchase with list "4" for a client whose
\* default list is "5".
C11_Witness ==
    /\ Reported
    /\ \E i \in 1..Len(rows) :
         /\ DictGet(last_purchases, IntOf(rows[i].cliente_id)).price_list_id = "4"
         /\ contacts[IntOf(rows[i].cliente_id)].price_id = "5"
         /\ rows[i].categoria = "Distribuidores"

\* The ids of the contact directory.
Directory == {ContactList[i].id : i \in 1..Len(ContactList)}

\* The clients a report step considers: every client with a last purchase
\* in a rebuild, those of them with a sale in the batch in an incremental run.
Considered ==
    IF mode = "rebuild" THEN DictKeys(last_purchases)
    ELSE DictKeys(last_purchases) \cap Touched

\* C12: every row a run writes to clients_last_purchase is of a client of
\* the contact directory, has a category of the two, the one of its price
\* list, and a last purchase at most 180 days before the day of the run; a
\* client whose last purchase fails one of the three has no row written in
\* the run, and the run changes the table through these rows only.
C12_WrittenRowsAreEligible ==
    Reported =>
        /\ \A i \in 1..Len(rows) :
             /\ IntOf(rows[i].cliente_id) \in Directory
             /\ rows[i].categoria \in {"Distribuidores", "Mayoristas"}
             /\ rows[i].categoria = "Distribuidores" <=> rows[i].lista_precio_id \in DISTRIBUTOR_SET
             /\ rows[i].categoria = "Mayoristas" =>  rows[i].lista_precio_id \in MAYORISTA_SET
             /\ today - rows[i].fecha_ultima_compra <= MAX_MONTHS_WITHOUT_PURCHASE * 30
        /\ \A c \in Considered :
             LET e    == DictGet(last_purchases, c)
                 used == IF e.price_list_id # None THEN e.price_list_id
                         ELSE contacts[c].price_id
             IN  (\/ c \notin DOMAIN contacts
                  \/ used \notin DISTRIBUTOR_SET \cup MAYORISTA_SET
                  \/ today - e.date > MAX_MONTHS_WITHOUT_PURCHASE * 30)
                 => \A i \in 1..Len(rows) : rows[i].cliente_id # StrOf(c)
        /\ Range(report) \subseteq
             (IF mode = "rebuild" THEN {} ELSE Range(report0)) \cup Range(rows)

\* A run wrote the row of one client and left out another client, whose
\* last purchase has no category or is too old.
C12_Witness ==
    /\ Reported /\ upserted
    /\ \E i \in 1..Len(rows) : rows[i] \in Range(report)
    /\ \E c \in Considered : \A i \in 1..Len(rows) : rows[i].cliente_id # StrOf(c)

\* The considered clients that have a contact and a category.
Categorised ==
    {c \in Considered \cap DOMAIN contacts :
        category_from_price(PriceIdOf(DictGet(last_purchases, c), contacts[c])) # None}

\* C13: with max_months = 6 the recency test accepts a date exactly when it
\* is at most 180 days before today: the date 180 days back is accepted, the
\* date 181 days back is refused, and a client with a contact and a category
\* has a row exactly when its last purchase passes.
C13_RecencyBoundary ==
    /\ is_within_timeframe(today - 180, today)
    /\ ~is_within_timeframe(today - 181, today)
    /\ \A d \in SaleDays : is_within_timeframe(d, today) <=> today - d <= 180
    /\ Reported /\ "db" \notin faults =>
         \A c \in Categorised :
             (\E i \in 1..Len(rows) : rows[i].cliente_id = StrOf(c))
                 <=> today - DictGet(last_purchases, c).date <= 180

\* A report step kept a client whose last purchase is 180 days old and left
\* out one whose last purchase is 181 days old.
C13_Witness ==
    /\ Reported
    /\ \E i \in 1..Len(rows) : rows[i].dias_sin_compra = 180
    /\ \E c \in Categorised :
         /\ today - DictGet(last_purchases, c).date = 181
         /\ \A i \in 1..Len(rows) : rows[i].cliente_id # StrOf(c)

\* An incremental run is in progress or has just ended.
Incremental == mode = "incremental" /\ pc # "idle"

\* C14 as stated: an incremental run that reaches its end has set
\* sync_state to today.  save_state() catches the exception of its upsert, so
\* a run whose state write fails reaches its end with the old cursor.
C14_EndSetsSyncToToday ==
    (Incremental /\ pc = "done") => sync = << today >>

\* C14: an incremental run that reaches its end has set sync_state to today,
\* whether or not it accepted a sale, unless the state write itself failed,
\* and then the cursor is as it was; a run that starts without a cursor, or
\* whose read of it fails, fetches from 2020-01-01, and neither stops the run:
\* only a failed report upsert does.
C14_EndSetsSyncUnlessWriteFails ==
    /\ (Incremental /\ pc = "done") =>
          IF "save_state" \in faults THEN sync = sync0 ELSE sync = << today >>
    /\ (Incremental /\ (sync0 = << >> \/ "load_state" \in faults)) => since = Epoch
    /\ (Incremental /\ "load_state" \notin faults /\ sync0 # << >>) => since = sync0[1]
    /\ (Incremental /\ pc = "aborted") => "upsert" \in faults

\* A first incremental run found no cursor, accepted no sale and ended with
\* the cursor at today.
C14_Witness ==
    /\ Incremental /\ pc = "done"
    /\ sync0 = << >> /\ since = Epoch
    /\ sales = << >> /\ sync = << today >>

\* The offsets of k successive pages.
Offsets(k) == [j \in 1..k |-> (j - 1) * limit]

\* What holds of a paginate() call at every step: the requests made are at
\* the offsets 0, 30, 60, ... in order; the items yielded are the first of
\* the source, in order, each once; every request but the last was answered
\* with a full page; and a call that ended without a failed request and
\* without the test-mode cap ended on an empty or short page, having
\* yielded every item.
C15_Steps ==
    /\ gen.requests = Offsets(Len(gen.requests))
    /\ gen.yielded = SubSeq(gen.source, 1, Len(gen.yielded))
    /\ \A j \in 1..(Len(gen.requests) - 1) :
           Len(Page(gen.source, gen.requests[j])) = limit
    /\ (gen.pc \in {"end", "after_loop"} /\ ~gen.failed /\ ~gen.capped) =>
          /\ gen.yielded = gen.source
          /\ Len(gen.requests) = (Len(gen.source) \div limit) + 1
          /\ Len(Page(gen.source, gen.requests[Len(gen.requests)])) < limit

\* C15 as stated: a call on a finite source ends having yielded every item
\* once.  A request that fails, or the item cap of test mode, ends the call
\* with a part of the items.
C15_EveryItemOnce ==
    gen.pc \in {"end", "after_loop"} => gen.yielded = gen.source

\* C15: paginate() requests the pages at offsets 0, 30, 60, ... in order,
\* yields the items of each page in order, never requests a page after an
\* empty or short one, and always terminates; when no request fails and the
\* test-mode cap is not reached it stops after the first empty or short page
\* having yielded every item exactly once.
C15_PagesInOrderUntilShortPage == []C15_Steps /\ <>(gen.pc = "after_loop")

\* A call read two full pages and a short third one, and yielded all items.
C15_Witness ==
    /\ gen.pc = "after_loop" /\ ~gen.failed /\ ~gen.capped
    /\ gen.requests = << 0, 30, 60 >>
    /\ gen.batch # << >> /\ Len(gen.batch) < limit
    /\ Len(gen.yielded) > 2 * limit /\ gen.yielded = gen.source

\* C16: when a page request fails, the generator ends without raising and
\* the caller's loop ends as on an exhausted source: the items yielded are
\* those of the pages requested before the failing request, all of them
\* full, and the failing request is the last one made.
C16_FailedRequestEndsSequence ==
    gen.failed =>
        /\ gen.pc \in {"end", "after_loop"}
        /\ gen.yielded =
             Flatten([j \in 1..(Len(gen.requests) - 1) |->
                         Page(gen.source, gen.requests[j])])
        /\ Len(gen.yielded) = limit * (Len(gen.requests) - 1)
        /\ gen.requests[Len(gen.requests)] = gen.start
        /\ gen.start = limit * (Len(gen.requests) - 1)

\* The third request of a call failed, with items left on the endpoint; the
\* caller went on with the two pages yielded.
C16_Witness ==
    /\ gen.failed /\ gen.pc = "after_loop"
    /\ gen.requests = << 0, 30, 60 >>
    /\ Len(gen.yielded) = 2 * limit
    /\ Len(gen.source) > Len(gen.yielded)

\* C17: a rebuild whose truncate fails stops there: each table is as it was
\* when the run started or has been emptied by a delete before the failing
\* one, sync_state is as it was, and the run fetched nothing, appended no
\* sale, upserted no row and wrote no cursor.
C17_FailedTruncateAborts ==
    (mode = "rebuild" /\ "truncate" \in faults) =>
        /\ pc = "aborted"
        /\ store \in {store0, << >>}
        /\ report \in {report0, << >>}
        /\ report # report0 => store = << >>
        /\ sync = sync0
        /\ sales = << >> /\ rows = << >>
        /\ ~upserted /\ ~syncWritten

\* The second delete of a rebuild failed on tables a previous run had
\* filled: sales_processed is empty, the report and the cursor are kept.
C17_Witness ==
    /\ mode = "rebuild" /\ "truncate" \in faults /\ pc = "aborted"
    /\ store0 # << >> /\ store = << >>
    /\ report0 # << >> /\ report = report0
    /\ sync0 # << >> /\ sync = sync0

\* The rows a table holds for a client.
RowsOf(table, c) == {r \in Range(table) : r.cliente_id = StrOf(c)}

\* C18: an incremental run deletes no row of clients_last_purchase and
\* writes only rows of clients with a sale in the accepted batch: the rows
\* of the other clients, and the rows of clients of the batch for which the
\* run built no row (no contact, no category, too old), are as they were
\* when the run started.
C18_IncrementalTouchesOnlyBatchClients ==
    Incremental =>
        /\ \A r \in Range(report0) : RowsOf(report, IntOf(r.cliente_id)) # {}
        /\ \A r \in Range(report) :
              r \notin Range(report0) =>
                  /\ IntOf(r.cliente_id) \in Touched
                  /\ r \in Range(rows)
        /\ \A c \in Clients :
              (c \notin Touched \/ RowsOf(rows, c) = {})
                  => RowsOf(report, c) = RowsOf(report0, c)

\* An incremental run accepted a sale of a client who had a row and no
\* longer passes the filter; it ended with that row as it was.
C18_Witness ==
    /\ Incremental /\ pc = "done" /\ faults = {}
    /\ \E c \in Touched :
         /\ RowsOf(report0, c) # {}
         /\ RowsOf(rows, c) = {}
         /\ RowsOf(report, c) = RowsOf(report0, c)

\* The remote sale has a record in sales_processed.
Ingested(x) ==
    \E j \in 1..Len(store) :
        store[j].sale_id = StrOf(x.id) /\ store[j].sale_type = x.kind

\* C19: at the end of an incremental run that wrote sync_state, every
\* remote sale dated on or after the cursor the run fetched from has a record
\* in sales_processed, also when a page request or the append failed.
C19_NoSaleMissed ==
    (Incremental /\ pc = "done" /\ syncWritten) =>
        \A i \in 1..Len(remote) : remote[i].date >= since => Ingested(remote[i])

\* The same for the runs in which no call failed.
C19_NoSaleMissedWithoutFailure ==
    (Incremental /\ pc = "done" /\ syncWritten /\ faults = {}) =>
        \A i \in 1..Len(remote) : remote[i].date >= since => Ingested(remote[i])

\* C20: when a run has completed, rebuild or incremental, every row of
\* clients_last_purchase agrees with sales_processed: the client of the row
\* has stored sales and the row's date is the latest of their dates.
C20_RowsAgreeWithStore ==
    pc = "done" =>
        \A r \in Range(report) :
            /\ StoredDates(r.cliente_id) # {}
            /\ r.fecha_ultima_compra = MaxOf(StoredDates(r.cliente_id))

\* The answer at the prompt is not "y" in either case.
Declined == mode = "rebuild" /\ pc # "idle" /\ Lower(confirm) # "y"

\* A declined rebuild is cancelled, with the three tables as they were when
\* it started and nothing fetched, saved or written.
C21_Cancelled ==
    Declined =>
        /\ pc = "cancelled"
        /\ store = store0 /\ report = report0 /\ sync = sync0
        /\ contacts = << >> /\ fetched = << >> /\ sales = << >>
        /\ faults = {} /\ ~upserted /\ ~syncWritten

\* The only step of a cancelled run is the return of main(): no table
\* changes and no fetch is made.
C21_ReturnsAtOnce ==
    pc = "cancelled" =>
        /\ pc' = "idle"
        /\ store' = store /\ report' = report /\ sync' = sync
        /\ contacts' = << >> /\ fetched' = << >> /\ sales' = << >>

\* C21: a rebuild whose prompt is answered with anything but "y" or "Y"
\* leaves sales_processed, clients_last_purchase and sync_state unchanged and
\* makes no request to the Alegra API: main() returns right after the prompt.
C21_DeclinedRebuildChangesNothing == []C21_Cancelled /\ [][C21_ReturnsAtOnce]_vars

\* A rebuild over filled tables was answered "yes", which is not "y": it is
\* cancelled with the tables as they were.
C21_Witness ==
    /\ Declined /\ confirm = "yes" /\ pc = "cancelled"
    /\ store0 # << >> /\ store = store0
    /\ report0 # << >> /\ report = report0
    /\ sync0 # << >> /\ sync = sync0

====
